---- MODULE Spec2Model ----
(***************************************************************************)
(* EigenvectorCentralityCalculator.powerIteration (CELtd/noshprotocol).    *)
(*                                                                         *)
(* Numbers.  A JavaScript number x is held in fixed point as the integer   *)
(* round(x * Scale); NaN is a separate value.  A product of two numbers is *)
(* held at Scale^2 until it is stored back into a vector (Rescale) or its  *)
(* square root is taken (Sqrt brings Scale^2 back to Scale).  Division and *)
(* square root round to the nearest representable number, as the IEEE      *)
(* operations do.  Overflow to Infinity is outside the model.              *)
(*                                                                         *)
(* Arrays.  An array is an address into heap; A is an array of row         *)
(* addresses.  Array.prototype.map allocates a new array.                  *)
(*                                                                         *)
(* Pages.  In SpecViz and SpecPages the variable graph holds one page: the *)
(* fields of its graph (nodes, links, nodeId, maxWeight, simIndex), its    *)
(* tick counter, and what its last handler did (the calls of               *)
(* powerIteration it made, whether it reset the graph).  A link holds the  *)
(* ids of its two nodes; a node holds the index of the eigenvector entry   *)
(* stored on it, the entries themselves being those of the call recorded.  *)
(***************************************************************************)
EXTENDS Integers, Sequences, FiniteSets, TLC

\* ------------------------------------------------------------------ bounds
MaxN == 2
MaxIter == 3

\* --------------------------------------------------------------- constants
Scale == 1000
NaN == -999999999
DefaultTol == 10
CallerIter == 1000
GuardLimit == 10000

\* ----------------------------------------------------------------- numbers
IsNaN(x) == x = NaN

Abs(x) == IF x < 0 THEN -x ELSE x

Add(x, y) == IF IsNaN(x) \/ IsNaN(y) THEN NaN ELSE x + y

Sub(x, y) == IF IsNaN(x) \/ IsNaN(y) THEN NaN ELSE x - y

Mul(x, y) == IF IsNaN(x) \/ IsNaN(y) THEN NaN ELSE x * y

\* x < y of JavaScript: false when either side is NaN
LessThan(x, y) == ~IsNaN(x) /\ ~IsNaN(y) /\ x < y

\* n / d rounded to the nearest integer, d > 0
RoundDiv(n, d) == IF n >= 0 THEN (2 * n + d) \div (2 * d)
                            ELSE -((2 * (-n) + d) \div (2 * d))

\* a product (Scale^2) stored as a number (Scale)
Rescale(x) == IF IsNaN(x) THEN NaN ELSE RoundDiv(x, Scale)

RECURSIVE SqrtSearch(_, _, _)
SqrtSearch(n, lo, hi) ==
    IF lo >= hi THEN lo
    ELSE LET mid == (lo + hi + 1) \div 2
         IN  IF mid * mid <= n THEN SqrtSearch(n, mid, hi)
                               ELSE SqrtSearch(n, lo, mid - 1)

\* Math.sqrt of a sum of squares held at Scale^2, as a number at Scale,
\* rounded toward zero: Sqrt(s) < t exactly when the real root is below t
Sqrt(s) ==
    IF IsNaN(s) \/ s < 0 THEN NaN
    ELSE SqrtSearch(s, 0, IF s < 46340 THEN s ELSE 46340)

\* mutant: a division by zero is skipped
DivideGuarded(x, y) ==
    IF IsNaN(x) \/ IsNaN(y) THEN NaN
    ELSE IF y = 0 THEN x
    ELSE IF y > 0 THEN RoundDiv(x * Scale, y)
    ELSE -RoundDiv(x * Scale, -y)

\* x / y of JavaScript for two numbers at Scale.  0 / 0 is NaN.
Divide(x, y) ==
    IF IsNaN(x) \/ IsNaN(y) THEN NaN
    ELSE IF y = 0 THEN NaN
    ELSE IF y > 0 THEN RoundDiv(x * Scale, y)
    ELSE -RoundDiv(x * Scale, -y)

\* Math.sign, as a plain factor -1, 0, 1 (or NaN)
Sign(x) == IF IsNaN(x) THEN NaN ELSE IF x > 0 THEN 1 ELSE IF x < 0 THEN -1 ELSE 0

\* b[index]: undefined outside the array, and undefined is NaN in arithmetic
At(v, k) == IF k \in DOMAIN v THEN v[k] ELSE NaN

RECURSIVE SumTo(_, _)
SumTo(s, n) == IF n = 0 THEN 0 ELSE Add(SumTo(s, n - 1), s[n])

\* a.reduce((sum, value) => sum + value, 0)
Sum(s) == SumTo(s, Len(s))

\* ----------------------------------------------------------------- helpers
dotProduct(a, b) == Sum([k \in DOMAIN a |-> Mul(a[k], At(b, k))])

RECURSIVE MaxAbsTo(_, _)
MaxAbsTo(v, n) ==
    IF n = 0 THEN 0
    ELSE LET m == MaxAbsTo(v, n - 1)
         IN  IF IsNaN(v[n]) \/ Abs(v[n]) <= m THEN m ELSE Abs(v[n])

\* A float keeps its relative precision whatever its magnitude; a fixed-point
\* number does not.  Normalizing v, the model normalizes Guard(v) * v, whose
\* largest entry is about GuardLimit: the same direction, with the norm's
\* digits kept.
Guard(v) ==
    LET m == MaxAbsTo(v, Len(v))
    IN  IF m = 0 \/ m > GuardLimit THEN 1 ELSE GuardLimit \div m

vectorNormalize(v) ==
    LET g == Guard(v)
        w == [k \in DOMAIN v |-> Mul(g, v[k])]
        norm == Sqrt(Sum([k \in DOMAIN w |-> Mul(w[k], w[k])]))
    IN  [k \in DOMAIN w |-> Divide(w[k], norm)]

matrixVectorMultiply(matrix, vector) ==
    [k \in DOMAIN matrix |-> Rescale(dotProduct(matrix[k], vector))]


\* y = A * r_k + b                                     (Step 2)
BiasedProduct(Amat, bvec, r) ==
    LET Ar == matrixVectorMultiply(Amat, r)
    IN  [k \in DOMAIN Ar |-> Add(Ar[k], At(bvec, k))]

\* mu = y . r_k, held at Scale^2: only its sign is read  (Step 3)
Mu(y_k1, r) == dotProduct(y_k1, r)

\* y_k1.map(value => Math.sign(mu) * value)
SignedVector(y_k1, mu) == [k \in DOMAIN y_k1 |-> Mul(Sign(mu), y_k1[k])]

\* mutant: the new iterate keeps the sign of y
SignedNormalizeNoSign(y_k1, mu) == vectorNormalize(y_k1)

\* r_k1 = normalize(sign(mu) * y)                      (Step 4)
SignedNormalize(y_k1, mu) == vectorNormalize(SignedVector(y_k1, mu))

\* one loop body's new iterate r_k1 from r_k
PowerStep(Amat, bvec, r) ==
    LET y_k1 == BiasedProduct(Amat, bvec, r)
    IN  SignedNormalize(y_k1, Mu(y_k1, r))

\* ||r_k1 - r_k||                                      (Step 5)
Delta(r_k1, r) ==
    LET diff == [k \in DOMAIN r_k1 |-> Sub(r_k1[k], At(r, k))]
    IN  Sqrt(dotProduct(diff, diff))

\* mutant: <= for <
ConvergedNonStrict(delta, tolerance) ==
    LessThan(delta, tolerance) \/ (~IsNaN(delta) /\ delta = tolerance)

Converged(delta, tolerance) == LessThan(delta, tolerance)

\* mutant: one iteration too many
LoopGuardOffByOne(count, limit) == count <= limit

\* mutant: a do-while loop, the body runs before the first test
LoopGuardDoWhile(count, limit) == count = 0 \/ count < limit

LoopGuard(count, limit) == count < limit

\* i++
NextIndex(count) == count + 1

\* mutant: the draw is used as it comes
InitialIterateRaw(v) == v

\* line 24: the draw is normalized before the loop reads it
InitialIterate(v) == vectorNormalize(v)

\* mutant: the loop body draws again
RngCallsAfterBodyRedraw(count) == count + 1

\* lines 27-41 hold no call of rng: a loop body leaves the number of draws
RngCallsAfterBody(count) == count

\* ------------------------------------------------------------------- state
VARIABLES
    heap,      \* address -> contents of the live arrays
    A,         \* argument A: the sequence of the addresses of its rows
    b,         \* argument b: an address
    nIter,     \* argument nIter
    tol,       \* argument tol
    rngKind,   \* argument rng: "default", "injected" (a new array), "alias" (returns b)
               \* or "refeed" (returns the array the call before returned)
    drawn,     \* the contents of the array rng() returns
    pc,        \* "start", "loop", "done"
    i,         \* the loop counter
    r_k,       \* local r_k: an address (0 before the draw)
    result,    \* the value returned
    outcome,   \* "none", "returned", "threw"
    iters,     \* history: loop bodies executed
    lastDelta, \* history: the delta of the last loop body (-1 before the first)
    earlier,   \* history: the deltas of the loop bodies before the last
    prev,      \* history: the iterate the last loop body started from
    preNorm,   \* history: sign(mu) * y of the last loop body, before its normalization
    rngCalls,  \* history: the calls of rng made
    A0,        \* history: the contents of A at the call
    b0,        \* history: the contents of b at the call
    other,     \* a second call of the same program: its locals while it is not running
    sched,     \* when the other call may run: "alone", "any" (interleaved), "after"
    graph,     \* a visualization's graph: nodes and links
    matrix,    \* the matrix getAdjacencyMatrix returned last: the addresses of its rows
    held       \* the matrix it returned before that, which the caller still holds

\* the variables of the calls of powerIteration
callVars == <<A, b, nIter, tol, rngKind, drawn, pc, i, r_k, result, outcome,
              iters, lastDelta, earlier, prev, preNorm, rngCalls, A0, b0, other, sched>>

\* the variables of a visualization
graphVars == <<graph, matrix, held>>

vars == <<heap, callVars, graphVars>>

NoResult == [pending |-> TRUE]

\* there is no second call
NoCall == [pc |-> "none"]

\* the matrix and the bias as the code reads them now
MatrixOf(h, rows) == [k \in DOMAIN rows |-> h[rows[k]]]

Range(s) == {s[k] : k \in DOMAIN s}

\* the arrays the second call holds: its arguments, its iterate, its result
OtherRoots ==
    IF other.pc = "none" THEN {}
    ELSE Range(other.A) \cup {other.b}
         \cup (IF other.r_k = 0 THEN {} ELSE {other.r_k})
         \cup (IF other.outcome = "returned" THEN {other.result.eigenvector} ELSE {})

\* the arrays held outside the running call's locals
Roots == Range(A) \cup {b} \cup OtherRoots

\* a new array's address
Fresh(h) == CHOOSE a \in 1..(Cardinality(DOMAIN h) + 1) :
               /\ a \notin DOMAIN h
               /\ \A c \in 1..(a - 1) : c \in DOMAIN h

\* h after array a is written with contents v, keeping the arrays in live
Store(h, a, v, live) == [c \in live \cup {a} |-> IF c = a THEN v ELSE h[c]]

\* mutant: the map writes into the array it reads
MapTargetInPlace(v_ref, h) == v_ref

\* mutant: the iterates of all calls are written into one static array
MapTargetShared(v_ref, h) ==
    IF other.pc \notin {"none", "start"} THEN other.r_k ELSE Fresh(h)

\* the array v.map(...) returns: a new one
MapTarget(v_ref, h) == Fresh(h)

\* mutant: the object tells how the loop ended
ReturnValueFlagged(ref, converged) == [eigenvector |-> ref, converged |-> converged]

\* the object a return statement builds
ReturnValue(ref, converged) == [eigenvector |-> ref]

\* mutant: the early return hands back r_k
EarlyIteratePrevious(ref_k1, ref_k) == ref_k

\* which iterate the early return hands back
EarlyIterate(ref_k1, ref_k) == ref_k1

\* ------------------------------------------------------------------ inputs
\* no matrix returned yet
NoMatrix == [returned |-> FALSE, rows |-> << >>, contents |-> << >>]

\* no visualization runs
NoVisualization ==
    /\ graph = [nodes |-> << >>, links |-> << >>]
    /\ matrix = NoMatrix
    /\ held = NoMatrix

Weights == {0, Scale}

SymMatrices(n) ==
    {M \in [1..n -> [1..n -> Weights]] : \A p, q \in 1..n : M[p][q] = M[q][p]}

Zeros(n) == [k \in 1..n |-> 0]

\* b[0] = 1: doping of the central node
OneHot(n) == [k \in 1..n |-> IF k = 1 THEN Scale ELSE 0]

Biases(n) == IF n = 0 THEN {Zeros(n)} ELSE {Zeros(n), OneHot(n)}

\* Math.random() lies in [0, 1)
UniformVals == {0, 300, 900}

DrawVals == UniformVals \cup {-Scale}

DefaultDraws(n) == [1..n -> UniformVals]

\* what an injected source returns that the default one cannot
InjectedDraws(n) == {v \in [1..n -> DrawVals] : n = 0 \/ \E k \in 1..n : v[k] < 0}

\* Scenario B: two nodes joined with weight 1
PairGraph == <<  <<0, Scale>>, <<Scale, 0>>  >>

\* Scenario C: node 0 joined to nodes 1..4 with weight 1
StarGraph == [p \in 1..5 |-> [q \in 1..5 |->
                 IF (p = 1) # (q = 1) THEN Scale ELSE 0]]

StarDraws == [1..5 -> {100, 900}]

\* the state at the call: the caller's arrays are rows 1..n and b at n + 1
CallState(M, bvec, n_iter, tolerance, kind, v) ==
    LET n == Len(M) IN
    /\ heap = [a \in 1..(n + 1) |-> IF a <= n THEN M[a] ELSE bvec]
    /\ A = [k \in 1..n |-> k]
    /\ b = n + 1
    /\ nIter = n_iter
    /\ tol = tolerance
    /\ rngKind = kind
    /\ drawn = v
    /\ pc = "start"
    /\ i = 0
    /\ r_k = 0
    /\ result = NoResult
    /\ outcome = "none"
    /\ iters = 0
    /\ lastDelta = -1
    /\ earlier = {}
    /\ prev = << >>
    /\ preNorm = << >>
    /\ rngCalls = 0
    /\ A0 = M
    /\ b0 = bvec
    /\ other = NoCall
    /\ sched = "alone"
    /\ NoVisualization

GeneralInit ==
    \E n \in 0..MaxN :
    \E M \in SymMatrices(n), bvec \in Biases(n) :
    \E n_iter \in 0..MaxIter, tolerance \in {0, DefaultTol} :
        \/ \E v \in DefaultDraws(n) : CallState(M, bvec, n_iter, tolerance, "default", v)
        \/ \E v \in InjectedDraws(n) : CallState(M, bvec, n_iter, tolerance, "injected", v)
        \/ CallState(M, bvec, n_iter, tolerance, "alias", bvec)

\* the calls of the scenarios, with the callers' iteration cap and tolerance
ScenarioInit ==
    \/ \E v \in DefaultDraws(2) :
          CallState(PairGraph, Zeros(2), CallerIter, DefaultTol, "default", v)
    \/ \E v \in StarDraws :
          CallState(StarGraph, Zeros(5), CallerIter, DefaultTol, "default", v)

\* matrices with a negative weight (a negative dominant eigenvalue among them)
SignedMatrices(n) ==
    {M \in [1..n -> [1..n -> {-Scale, 0, Scale}]] :
        /\ \A p, q \in 1..n : M[p][q] = M[q][p]
        /\ \E p, q \in 1..n : M[p][q] < 0}

SignedInit ==
    \E n \in 1..2 :
    \E M \in SignedMatrices(n), bvec \in Biases(n), n_iter \in 0..MaxIter :
        \/ \E v \in DefaultDraws(n) : CallState(M, bvec, n_iter, DefaultTol, "default", v)
        \/ \E v \in InjectedDraws(n) : CallState(M, bvec, n_iter, DefaultTol, "injected", v)

\* arguments whose dimensions disagree: b shorter or longer than A, A with
\* more columns than rows, more rows than columns, or rows of two lengths
MismatchedArgs ==
    {<<PairGraph, <<0>> >>,
     <<PairGraph, <<0, 0, 0>> >>,
     << << <<0, Scale>> >>, <<0>> >>,
     << << <<Scale>>, <<Scale>> >>, <<0, 0>> >>,
     << << <<0, Scale>>, <<Scale>> >>, <<0, 0>> >>}

\* the default source draws A[0].length numbers
MismatchInit ==
    \E args \in MismatchedArgs, n_iter \in 0..MaxIter :
    \E v \in DefaultDraws(Len(args[1][1])) :
        CallState(args[1], args[2], n_iter, DefaultTol, "default", v)

Init == GeneralInit \/ ScenarioInit \/ SignedInit \/ MismatchInit

\* ----------------------------------------------------------------- actions
\* where the call stands: before line 23, at the loop test with the test
\* true, at the loop test with the test false
CanStart == pc = "start"

CanIterate == pc = "loop" /\ LoopGuard(i, nIter)

CanExhaust == pc = "loop" /\ ~LoopGuard(i, nIter)

\* lines 23-24: r_k = rng(); r_k = vectorNormalize(r_k).  The default source
\* reads A[0].length, a TypeError when A has no row.
Start ==
    /\ CanStart
    /\ IF rngKind = "default" /\ Len(A) = 0
       THEN /\ pc' = "done"
            /\ outcome' = "threw"
            /\ UNCHANGED <<heap, r_k>>
       ELSE LET v_ref == IF rngKind = "alias" THEN b
                         ELSE IF rngKind = "refeed" THEN other.result.eigenvector
                         ELSE Fresh(heap)
                h1 == Store(heap, v_ref, IF rngKind = "alias" THEN heap[b] ELSE drawn,
                            DOMAIN heap)
                t == MapTarget(v_ref, h1)
            IN  /\ heap' = Store(h1, t, InitialIterate(h1[v_ref]), Roots)
                /\ r_k' = t
                /\ pc' = "loop"
                /\ outcome' = "none"
    /\ rngCalls' = rngCalls + 1
    /\ UNCHANGED <<A, b, nIter, tol, rngKind, drawn, i, result, iters, lastDelta,
                   earlier, prev, preNorm, A0, b0, other, sched, graphVars>>

\* lines 26-42: one execution of the loop body.  y_k1.map(...) is a new array
\* (tmp), and vectorNormalize maps it into the array of r_k1.
Iterate ==
    /\ CanIterate
    /\ LET r == heap[r_k]
           r_k1 == PowerStep(MatrixOf(heap, A), heap[b], r)
           delta == Delta(r_k1, r)
           tmp == Fresh(heap)
           h1 == Store(heap, tmp, r_k1, DOMAIN heap)
           t == MapTarget(tmp, h1)
       IN  /\ iters' = iters + 1
           /\ lastDelta' = delta
           /\ earlier' = IF iters = 0 THEN {} ELSE earlier \cup {lastDelta}
           /\ prev' = r
           /\ preNorm' = LET y_k1 == BiasedProduct(MatrixOf(heap, A), heap[b], r)
                          IN  SignedVector(y_k1, Mu(y_k1, r))
           /\ rngCalls' = RngCallsAfterBody(rngCalls)
           /\ IF Converged(delta, tol)
              THEN /\ heap' = Store(h1, t, r_k1, Roots \cup {r_k})
                   /\ result' = ReturnValue(EarlyIterate(t, r_k), TRUE)
                   /\ outcome' = "returned"
                   /\ pc' = "done"
                   /\ UNCHANGED <<i, r_k>>
              ELSE /\ heap' = Store(h1, t, r_k1, Roots)
                   /\ r_k' = t
                   /\ i' = NextIndex(i)
                   /\ UNCHANGED <<result, outcome, pc>>
    /\ UNCHANGED <<A, b, nIter, tol, rngKind, drawn, A0, b0, other, sched, graphVars>>

\* line 46: the loop is over, return r_k
Exhausted ==
    /\ CanExhaust
    /\ result' = ReturnValue(r_k, FALSE)
    /\ outcome' = "returned"
    /\ pc' = "done"
    /\ UNCHANGED <<heap, A, b, nIter, tol, rngKind, drawn, i, r_k, iters, lastDelta,
                   earlier, prev, preNorm, rngCalls, A0, b0, other, sched, graphVars>>

Next == Start \/ Iterate \/ Exhausted

Spec == Init /\ [][Next]_vars

\* ---------------------------------------------------------------- two calls
\* The callers call powerIteration again and again; a second call has its own
\* locals and shares the heap.  The running call's locals are the variables,
\* the other call's locals are kept in other; Switch hands the processor over.

\* the locals of a call about to begin, on the arrays rows and b_ref
CallRec(rows, b_ref, M, bvec, n_iter, tolerance, kind, v) ==
    [A |-> rows, b |-> b_ref, nIter |-> n_iter, tol |-> tolerance,
     rngKind |-> kind, drawn |-> v, pc |-> "start", i |-> 0, r_k |-> 0,
     result |-> NoResult, outcome |-> "none", iters |-> 0, lastDelta |-> -1,
     earlier |-> {}, prev |-> << >>, preNorm |-> << >>, rngCalls |-> 0,
     A0 |-> M, b0 |-> bvec]

\* the running call's locals
Self ==
    [A |-> A,
     b |-> b,
     nIter |-> nIter,
     tol |-> tol,
     rngKind |-> rngKind,
     drawn |-> drawn,
     pc |-> pc,
     i |-> i,
     r_k |-> r_k,
     result |-> result,
     outcome |-> outcome,
     iters |-> iters,
     lastDelta |-> lastDelta,
     earlier |-> earlier,
     prev |-> prev,
     preNorm |-> preNorm,
     rngCalls |-> rngCalls,
     A0 |-> A0,
     b0 |-> b0]

\* the running call is c
Running(c) ==
    /\ A = c.A
    /\ b = c.b
    /\ nIter = c.nIter
    /\ tol = c.tol
    /\ rngKind = c.rngKind
    /\ drawn = c.drawn
    /\ pc = c.pc
    /\ i = c.i
    /\ r_k = c.r_k
    /\ result = c.result
    /\ outcome = c.outcome
    /\ iters = c.iters
    /\ lastDelta = c.lastDelta
    /\ earlier = c.earlier
    /\ prev = c.prev
    /\ preNorm = c.preNorm
    /\ rngCalls = c.rngCalls
    /\ A0 = c.A0
    /\ b0 = c.b0

Rows(base, n) == [k \in 1..n |-> base + k]

\* two calls about to begin, the first one running
TwoCallState(h, first, second, policy) ==
    /\ heap = h
    /\ Running(first)
    /\ other = second
    /\ sched = policy
    /\ NoVisualization

\* a diagonal matrix with the weights 1 and 0.5
SlowGraph == <<  <<Scale, 0>>, <<0, Scale \div 2>>  >>

\* one call's arguments: a graph of two nodes, a bias, a default draw
CallInputs ==
    {<<M, bvec, <<300, 900>> >> :
        M \in {PairGraph, SlowGraph, <<  <<Scale, Scale>>, <<Scale, 0>>  >>},
        bvec \in Biases(2)}

\* two calls on separate arrays whose steps interleave in every order, and
\* each of these calls alone
InterleavedInit ==
    \E c1 \in CallInputs :
        \/ \E c2 \in CallInputs :
              TwoCallState(c1[1] \o <<c1[2]>> \o c2[1] \o <<c2[2]>>,
                           CallRec(Rows(0, 2), 3, c1[1], c1[2], MaxIter, DefaultTol, "default", c1[3]),
                           CallRec(Rows(3, 2), 6, c2[1], c2[2], MaxIter, DefaultTol, "default", c2[3]),
                           "any")
        \/ TwoCallState(c1[1] \o <<c1[2]>>,
                        CallRec(Rows(0, 2), 3, c1[1], c1[2], MaxIter, DefaultTol, "default", c1[3]),
                        NoCall, "alone")

\* Scenario D: the star graph with the bias at the centre, then without it,
\* the source returning the same draw
DopingInit ==
    \E v \in {v \in StarDraws : \A k \in 3..5 : v[k] = v[2]} :
        TwoCallState(StarGraph \o <<OneHot(5), Zeros(5)>>,
                     CallRec(Rows(0, 5), 6, StarGraph, OneHot(5), CallerIter, DefaultTol, "default", v),
                     CallRec(Rows(0, 5), 7, StarGraph, Zeros(5), CallerIter, DefaultTol, "default", v),
                     "after")

\* the same call twice, the source returning v, then 3 * v
ScaledInit ==
    \E n \in 1..2 :
    \E M \in SymMatrices(n), bvec \in Biases(n), n_iter \in 0..MaxIter :
    \E v \in [1..n -> {100, 300}] :
        TwoCallState(M \o <<bvec>>,
                     CallRec(Rows(0, n), n + 1, M, bvec, n_iter, DefaultTol, "injected", v),
                     CallRec(Rows(0, n), n + 1, M, bvec, n_iter, DefaultTol, "injected",
                             [k \in 1..n |-> 3 * v[k]]),
                     "after")

\* a call, then powerIteration(A, b, 1, tol, () => r) with r the array the
\* first call returned
RefeedInit ==
    \E M \in SymMatrices(2) \cup {SlowGraph}, bvec \in Biases(2), n_iter \in 1..MaxIter :
    \E v \in DefaultDraws(2) \cup {<<6, 900>>} :
        TwoCallState(M \o <<bvec>>,
                     CallRec(Rows(0, 2), 3, M, bvec, n_iter, DefaultTol, "default", v),
                     CallRec(Rows(0, 2), 3, M, bvec, 1, DefaultTol, "refeed", << >>),
                     "after")

InitTwo == InterleavedInit \/ DopingInit \/ ScaledInit \/ RefeedInit

\* the other call may run now: at any step when the calls interleave, after
\* the return of the running call when they follow each other
CanSwitch ==
    /\ other.pc \notin {"none", "done"}
    /\ \/ sched = "any"
       \/ sched = "after" /\ pc = "done"

\* the other call runs from here on; a source that returns the array the
\* call before returned draws that array's contents
Switch ==
    /\ CanSwitch
    /\ other' = Self
    /\ A' = other.A
    /\ b' = other.b
    /\ nIter' = other.nIter
    /\ tol' = other.tol
    /\ rngKind' = other.rngKind
    /\ pc' = other.pc
    /\ i' = other.i
    /\ r_k' = other.r_k
    /\ result' = other.result
    /\ outcome' = other.outcome
    /\ iters' = other.iters
    /\ lastDelta' = other.lastDelta
    /\ earlier' = other.earlier
    /\ prev' = other.prev
    /\ preNorm' = other.preNorm
    /\ rngCalls' = other.rngCalls
    /\ A0' = other.A0
    /\ b0' = other.b0
    /\ drawn' = IF other.rngKind = "refeed" THEN heap[result.eigenvector] ELSE other.drawn
    /\ UNCHANGED <<heap, sched, graphVars>>

NextTwo == Start \/ Iterate \/ Exhausted \/ Switch

SpecTwo == InitTwo /\ [][NextTwo]_vars

\* --------------------------------------------------------- the visualizations
\* getAdjacencyMatrix of er.ts, doping.ts and part_001: the same text.  A node
\* is [id]; a link is [source, target, weight], source and target the ids of
\* the node objects it refers to.
MaxNodes == 3
MaxLinks == 2

\* Math.random() of an ER link, the 1 of a doping link
LinkWeights == {300, Scale}

\* nodes takes the ids 0, 1, ... in the order of the pushes (id: this.nodeId++)
NodesOf(n) == [k \in 1..n |-> [id |-> k - 1]]

\* a link joins two nodes of the graph, or one with itself (the ring of one
\* node); links may repeat a pair, in either direction
LinksOf(n) ==
    UNION {[1..m -> [source : 0..(n - 1), target : 0..(n - 1), weight : LinkWeights]] :
              m \in 0..MaxLinks}

\* this.nodes.findIndex(node => node.id === id), counted from 1: 0 for -1
FindIndex(ns, id) ==
    IF \E k \in DOMAIN ns : ns[k].id = id
    THEN CHOOSE k \in DOMAIN ns : ns[k].id = id /\ \A c \in 1..(k - 1) : ns[c].id # id
    ELSE 0

\* Array(size).fill(0).map(() => Array(size).fill(0))
ZeroMatrix(size) == [p \in 1..size |-> [q \in 1..size |-> 0]]

\* matrix[p][q] = w
SetEntry(M, p, q, w) ==
    [r \in DOMAIN M |-> [c \in DOMAIN M[r] |-> IF r = p /\ c = q THEN w ELSE M[r][c]]]

\* mutant: the link is entered in one direction only
MirrorSkipped(M, s, t, w) == M

\* matrix[targetIndex][sourceIndex] = link.weight
Mirror(M, s, t, w) == SetEntry(M, t, s, w)

\* this.links.forEach(link => ...), from the k-th link on
RECURSIVE FillLinks(_, _, _, _)
FillLinks(M, ns, ls, k) ==
    IF k > Len(ls) THEN M
    ELSE LET s == FindIndex(ns, ls[k].source)
             t == FindIndex(ns, ls[k].target)
             w == ls[k].weight
         IN  FillLinks(Mirror(SetEntry(M, s, t, w), s, t, w), ns, ls, k + 1)

\* the contents of the matrix getAdjacencyMatrix builds
AdjacencyMatrix(ns, ls) == FillLinks(ZeroMatrix(Len(ns)), ns, ls, 1)

\* the arrays of the rows of a new matrix, one new array per row
RECURSIVE Allocate(_, _)
Allocate(h, contents) ==
    IF contents = << >> THEN [heap |-> h, rows |-> << >>]
    ELSE LET a == Fresh(h)
             rest == Allocate(Store(h, a, Head(contents), DOMAIN h), Tail(contents))
         IN  [heap |-> rest.heap, rows |-> <<a>> \o rest.rows]

\* a call that never runs
IdleCall == CallRec(<< >>, 0, << >>, << >>, 0, 0, "default", << >>)

\* a visualization with a graph it can have built, no matrix asked for yet
InitGraph ==
    \E n \in 0..MaxNodes :
    \E ls \in LinksOf(n) :
        /\ graph = [nodes |-> NodesOf(n), links |-> ls]
        /\ matrix = NoMatrix
        /\ held = NoMatrix
        /\ heap = << >>
        /\ Running(IdleCall)
        /\ other = NoCall
        /\ sched = "alone"

\* getAdjacencyMatrix(), the caller keeping the matrix of the call before
\* (an older one is garbage)
GetAdjacencyMatrix ==
    LET keep == [a \in Range(matrix.rows) |-> heap[a]]
        new == Allocate(keep, AdjacencyMatrix(graph.nodes, graph.links))
    IN  /\ heap' = new.heap
        /\ matrix' = [returned |-> TRUE, rows |-> new.rows,
                      contents |-> MatrixOf(new.heap, new.rows)]
        /\ held' = matrix
        /\ UNCHANGED <<graph, callVars>>

NextGraph == GetAdjacencyMatrix

SpecGraph == InitGraph /\ [][NextGraph]_vars

\* ------------------------------------------------------ claims' vocabulary
Returned == pc = "done" /\ outcome = "returned"

\* the vector the call returned
Eigenvector == heap[result.eigenvector]

HasNaN(v) == \E k \in DOMAIN v : IsNaN(v[k])

AllZero(v) == \A k \in DOMAIN v : v[k] = 0

\* the sum of the squares of the entries of v, at Scale^2
NormSq(v) == Sum([k \in DOMAIN v |-> Mul(v[k], v[k])])

\* ||v|| = 1 up to the rounding of the entries (half a unit each)
UnitNorm(v) ==
    /\ ~HasNaN(v)
    /\ Abs(NormSq(v) - Scale * Scale) <= (Len(v) + 1) * Scale

SymmetricNonNegative(M) ==
    /\ \A p \in DOMAIN M : DOMAIN M[p] = DOMAIN M
    /\ \A p, q \in DOMAIN M : M[p][q] = M[q][p] /\ M[p][q] >= 0

\* the source returned a vector that has a direction
NonDegenerateDraw == rngKind # "alias" /\ ~AllZero(drawn)

\* every entry of the draw is positive, as (almost) every default draw is
PositiveDraw == rngKind # "alias" /\ \A k \in DOMAIN drawn : drawn[k] > 0

\* the loop ended by the early return of line 38
EarlyReturn == iters > 0 /\ LessThan(lastDelta, tol)

\* --------------------------------------------------------------------- C1
\* C1 (as claimed): for a symmetric non-negative N x N matrix, N >= 1, zero
\* bias and any iteration cap and tolerance, the returned vector has norm 1
\* and no NaN entry.
C1_UnitNormAlways ==
    (/\ Returned
     /\ Len(A) >= 1
     /\ SymmetricNonNegative(A0)
     /\ AllZero(b0)
     /\ NonDegenerateDraw)
    => UnitNorm(Eigenvector)

\* --------------------------------------------------------------------- C2
\* the loop bodies and steps a call may still execute
StepsLeft ==
    IF pc = "start" THEN nIter + 2
    ELSE IF pc = "loop" THEN nIter - i + 1
    ELSE 0

\* C2: every call ends: a call that has not returned is at a step whose
\* guard holds (the rest of a step only assigns), every step lowers StepsLeft, which starts at nIter + 2 and is never
\* negative; the loop body is executed at most nIter times, and exactly
\* nIter times by a call that returns without meeting the tolerance (the cap
\* is what stops such a run).
C2_TerminatesWithinCap ==
    /\ [][StepsLeft' < StepsLeft]_vars
    /\ [](StepsLeft >= 0)
    /\ [](pc # "done" => CanStart \/ CanIterate \/ CanExhaust)
    /\ [](iters <= nIter)
    /\ [](Returned /\ ~EarlyReturn => iters = nIter)

C2_Witness ==
    /\ Returned
    /\ nIter = CallerIter
    /\ iters = nIter
    /\ HasNaN(Eigenvector)

\* --------------------------------------------------------------------- C3
\* C3: when an iteration's delta is strictly below the tolerance, the call
\* is over at once, the value returned is the new iterate r_{i+1} (a
\* different array from r_i, holding the step of r_i), and every earlier
\* delta was a number >= the tolerance.
C3_EarlyReturn ==
    EarlyReturn =>
        /\ Returned
        /\ iters = i + 1
        /\ result.eigenvector # r_k
        /\ heap[r_k] = prev
        /\ Eigenvector = PowerStep(A0, b0, prev)
        /\ lastDelta = Delta(Eigenvector, prev)
        /\ \A d \in earlier : ~IsNaN(d) /\ d >= tol

C3_Witness ==
    /\ Returned
    /\ EarlyReturn
    /\ iters > 1
    /\ lastDelta > 0
    /\ Eigenvector # prev

\* --------------------------------------------------------------------- C4
\* C4: a call none of whose iterations met the tolerance returns the iterate
\* of the last iteration, the nIter-th; a returned value has the one field
\* eigenvector, whichever way the loop ended; the only error a call raises
\* is that of the default source on an empty matrix, before any iteration.
C4_NonConvergenceReturns ==
    /\ (Returned /\ ~EarlyReturn) =>
           /\ iters = nIter
           /\ result.eigenvector = r_k
           /\ (nIter > 0 => Eigenvector = PowerStep(A0, b0, prev))
    /\ Returned => DOMAIN result = {"eigenvector"}
    /\ (pc = "done" /\ ~Returned) =>
           /\ outcome = "threw"
           /\ iters = 0
           /\ Len(A) = 0

C4_Witness ==
    /\ Returned
    /\ nIter > 0
    /\ iters = nIter
    /\ ~IsNaN(lastDelta)
    /\ lastDelta >= tol
    /\ tol > 0

\* --------------------------------------------------------------------- C5
\* C5: with nIter = 0 the loop body never runs and the result is the
\* normalized draw.
C5_ZeroIterations ==
    (Returned /\ nIter = 0) =>
        /\ iters = 0
        /\ lastDelta = -1
        /\ Eigenvector = vectorNormalize(IF rngKind = "alias" THEN b0 ELSE drawn)

C5_Witness ==
    /\ Returned
    /\ nIter = 0
    /\ Len(A) >= 1
    /\ ~AllZero(A0[1])
    /\ UnitNorm(Eigenvector)

\* --------------------------------------------------------------------- C6
\* C6 (as claimed): with tol = 0 the call stops early at the first
\* iteration whose delta is exactly zero.
C6_StopsAtZeroDelta ==
    (tol = 0 /\ Len(A) >= 1 /\ iters > 0 /\ lastDelta = 0) =>
        /\ pc = "done"
        /\ iters = i + 1

\* C6 (amended): with tol = 0 the call never stops early; it executes all
\* nIter iterations, also when a delta is exactly zero.
C6_ZeroToleranceRunsAll ==
    (tol = 0 /\ Returned) =>
        /\ iters = nIter
        /\ result.eigenvector = r_k

C6_Witness ==
    /\ Returned
    /\ tol = 0
    /\ nIter > 1
    /\ lastDelta = 0
    /\ 0 \in earlier

\* --------------------------------------------------------------------- C7
\* C7: the contents of A and b never change during a call, the iterate and
\* the returned vector are arrays of the call's own, none of them a row of
\* A or b.
C7_NoSideEffect ==
    /\ MatrixOf(heap, A) = A0
    /\ heap[b] = b0
    /\ (pc # "start" /\ outcome # "threw") => r_k \notin Roots
    /\ Returned => result.eigenvector \notin Roots

C7_Witness ==
    /\ Returned
    /\ rngKind = "alias"
    /\ iters > 0
    /\ ~AllZero(b0)

\* --------------------------------------------------------------------- C9
\* C9 (as claimed): Scenario B returns two equal entries, 0.7071 each up to
\* the global sign, for every draw with a direction.
C9_PairEqualEntries ==
    (/\ Returned
     /\ A0 = PairGraph
     /\ AllZero(b0)
     /\ nIter = CallerIter
     /\ tol = DefaultTol
     /\ PositiveDraw)
    => /\ ~HasNaN(Eigenvector)
       /\ Abs(Eigenvector[1] - Eigenvector[2]) <= DefaultTol
       /\ Abs(Abs(Eigenvector[1]) - 707) <= DefaultTol

\* -------------------------------------------------------------------- C10
\* C10 (as claimed): on the star graph with zero bias the centre's entry is
\* larger in magnitude than every leaf's and the four leaves' entries have
\* the same magnitude, for every draw with a direction.
C10_StarCentreDominates ==
    (/\ Returned
     /\ A0 = StarGraph
     /\ AllZero(b0)
     /\ PositiveDraw)
    => /\ ~HasNaN(Eigenvector)
       /\ \A k \in 2..5 : Abs(Eigenvector[1]) > Abs(Eigenvector[k])
       /\ \A k \in 2..5 : Abs(Abs(Eigenvector[k]) - Abs(Eigenvector[2])) <= 1

\* ------------------------------------------------ more of the vocabulary
AllNaN(v) == \A k \in DOMAIN v : IsNaN(v[k])

\* the iterate the last loop body made
LastIterate == IF EarlyReturn /\ Returned THEN Eigenvector ELSE heap[r_k]

\* mu of the last loop body
LastMu == Mu(BiasedProduct(A0, b0, prev), prev)

\* what rng() returned
DrawnVector == IF rngKind = "alias" THEN b0 ELSE drawn

\* b's length is not A's dimension, or A is not square
DimensionMismatch ==
    \/ Len(b0) # Len(A0)
    \/ \E p \in DOMAIN A0 : Len(A0[p]) # Len(A0)

\* an all-zero N x N matrix, N >= 1, and an all-zero bias, a draw with a
\* direction, at least one iteration
ZeroCase ==
    /\ Len(A0) >= 1
    /\ ~DimensionMismatch
    /\ \A p \in DOMAIN A0 : AllZero(A0[p])
    /\ AllZero(b0)
    /\ NonDegenerateDraw
    /\ nIter >= 1

\* -------------------------------------------------------------------- C14
\* C14 (as claimed): a call whose draw has a direction never returns a
\* vector with a NaN entry; a degenerate normalization is reported or
\* replaced by a defined value.
C14_NoNaNReturned ==
    (Returned /\ Len(A) >= 1 /\ ~DimensionMismatch /\ NonDegenerateDraw)
    => ~HasNaN(Eigenvector)

\* -------------------------------------------------------------------- C15
\* C15 (as claimed): a call whose b has not the length of A's dimension, or
\* whose A is not square, ends with an error and returns no vector.
C15_FailsFast ==
    (pc = "done" /\ Len(A) >= 1 /\ DimensionMismatch) => outcome = "threw"

\* -------------------------------------------------------------------- C17
\* C17: after a loop body whose mu is not zero, the new iterate has a
\* strictly positive inner product with the iterate the body started from.
C17_SignCorrection ==
    (iters > 0 /\ ~IsNaN(LastMu) /\ LastMu # 0) =>
        /\ ~IsNaN(dotProduct(LastIterate, prev))
        /\ dotProduct(LastIterate, prev) > 0

\* a second iteration in a row that corrected a negative mu
C17_Witness ==
    /\ iters > 1
    /\ ~IsNaN(LastMu)
    /\ LastMu < 0
    /\ \E p \in DOMAIN A0 : \E q \in DOMAIN A0[p] : A0[p][q] < 0
    /\ dotProduct(LastIterate, prev) > 0

\* -------------------------------------------------------------------- C18
\* C18 (as claimed): with a zero matrix and a zero bias every loop body
\* makes the zero vector before its normalization, and the run executes all
\* nIter iterations.
C18_ZeroVectorEveryIteration ==
    (ZeroCase /\ iters > 0) =>
        /\ AllZero(preNorm)
        /\ ~EarlyReturn
        /\ Returned => iters = nIter

\* C18 (amended): with a zero matrix and a zero bias the first loop body
\* makes the zero vector and its normalization divides 0 by 0; every later
\* loop body makes an all-NaN vector (0 * NaN), whose norm is NaN; every
\* iterate and every delta is NaN, the run never returns early and executes
\* all nIter iterations.
C18_ZeroMatrixRun ==
    (ZeroCase /\ iters > 0) =>
        /\ iters = 1 => AllZero(preNorm)
        /\ iters > 1 => AllNaN(preNorm)
        /\ AllNaN(LastIterate)
        /\ IsNaN(lastDelta)
        /\ ~EarlyReturn
        /\ Returned => iters = nIter

C18_Witness ==
    /\ ZeroCase
    /\ Returned
    /\ iters > 1
    /\ tol > 0

\* -------------------------------------------------------------------- C19
\* C19: rng is called once, by the step before the loop, and never again;
\* the loop starts from the normalized draw, and the iterate a loop body
\* makes is the step of the iterate before it under A and b.
C19_SingleDraw ==
    /\ pc = "start" => rngCalls = 0
    /\ pc # "start" => rngCalls = 1
    /\ (pc = "loop" /\ iters = 0) => heap[r_k] = vectorNormalize(DrawnVector)
    /\ iters > 0 => LastIterate = PowerStep(A0, b0, prev)

C19_Witness ==
    /\ Returned
    /\ iters > 1
    /\ rngKind = "default"
    /\ rngCalls = 1
    /\ ~HasNaN(Eigenvector)

\* ------------------------------------------- the vocabulary of two calls
OtherReturned == other.pc = "done" /\ other.outcome = "returned"

\* the vector the other call returned
OtherVector == heap[other.result.eigenvector]

\* the other call ended by the early return of line 38
OtherEarlyReturn == other.iters > 0 /\ LessThan(other.lastDelta, other.tol)

\* lines 26-46 as a function of the arguments and the iterate: the vector a
\* call returns when nothing else runs
RECURSIVE RunFrom(_, _, _, _, _, _)
RunFrom(M, bvec, n_iter, tolerance, count, r) ==
    IF ~LoopGuard(count, n_iter) THEN r
    ELSE LET r_k1 == PowerStep(M, bvec, r)
         IN  IF Converged(Delta(r_k1, r), tolerance) THEN r_k1
             ELSE RunFrom(M, bvec, n_iter, tolerance, NextIndex(count), r_k1)

\* lines 23-46
RunAlone(M, bvec, n_iter, tolerance, v) ==
    RunFrom(M, bvec, n_iter, tolerance, 0, InitialIterate(v))

\* the sum of the diagonal
Trace(M) == Sum([k \in DOMAIN M |-> M[k][k]])

\* a symmetric 1 x 1 or 2 x 2 matrix has the eigenvalues t/2 + s and
\* t/2 - s, s >= 0, t the trace: the one of largest magnitude is positive,
\* and no negative one matches it, exactly when t > 0
PositiveDominant(M) == Len(M) \in 1..2 /\ Trace(M) > 0

\* u = w or u = -w, entry by entry
SameUpToSign(u, w) ==
    /\ DOMAIN u = DOMAIN w
    /\ ~HasNaN(u)
    /\ ~HasNaN(w)
    /\ \/ \A k \in DOMAIN u : u[k] = w[k]
       \/ \A k \in DOMAIN u : u[k] = -w[k]

\* the running call's draw is three times the other call's, the other
\* arguments are the same
ScaledRerun ==
    /\ sched = "after"
    /\ other.pc = "done"
    /\ rngKind = "injected"
    /\ A = other.A
    /\ b = other.b
    /\ nIter = other.nIter
    /\ tol = other.tol
    /\ drawn = [k \in DOMAIN other.drawn |-> 3 * other.drawn[k]]

\* -------------------------------------------------------------------- C11
\* C11 (as claimed): on the star graph, the centre's entry of the result
\* with b = [1,0,0,0,0] is larger in magnitude than the centre's entry of the
\* result with b = zeros, the draw and the other arguments being the same.
C11_DopingRaisesCentre ==
    (/\ sched = "after"
     /\ Returned
     /\ OtherReturned
     /\ A0 = StarGraph
     /\ other.A0 = StarGraph
     /\ AllZero(b0)
     /\ other.b0 = OneHot(5)
     /\ nIter = other.nIter
     /\ tol = other.tol
     /\ drawn = other.drawn)
    => /\ ~HasNaN(Eigenvector)
       /\ ~HasNaN(OtherVector)
       /\ Abs(OtherVector[1]) > Abs(Eigenvector[1])

\* -------------------------------------------------------------------- C12
\* C12: for a matrix whose dominant eigenvalue is positive, the run from
\* the draw v and the run from 3 * v, v positive, return the same vector up
\* to one sign for all entries.
C12_SignStable ==
    (/\ ScaledRerun
     /\ Returned
     /\ OtherReturned
     /\ PositiveDominant(A0)
     /\ PositiveDraw)
    => SameUpToSign(Eigenvector, OtherVector)

C12_Witness ==
    /\ ScaledRerun
    /\ Returned
    /\ OtherReturned
    /\ PositiveDominant(A0)
    /\ PositiveDraw
    /\ iters > 1
    /\ drawn[1] # drawn[2]
    /\ ~AllZero(b0)
    /\ SameUpToSign(Eigenvector, OtherVector)

\* -------------------------------------------------------------------- C13
\* C13 (as claimed): after a call that returned r early, the call
\* powerIteration(A, b, 1, tol, () => r) makes an iterate whose distance
\* from r is below tol.
C13_RefeedWithinTol ==
    (/\ rngKind = "refeed"
     /\ OtherReturned
     /\ OtherEarlyReturn
     /\ iters > 0)
    => LessThan(lastDelta, tol)

Joined(p, q) ==
    \E k \in DOMAIN graph.links :
        LET s == FindIndex(graph.nodes, graph.links[k].source)
            t == FindIndex(graph.nodes, graph.links[k].target)
        IN  (s = p /\ t = q) \/ (s = q /\ t = p)

MaxRing == 3

\* the update limit of the market page, scaled down (the page counts to 100)
MarketLimit == 3

\* the largest value the tick counter of the two-graph page is followed to
MaxCounter == 14

\* a new node object: no eigenvector entry is stored on it yet (0)
NewNode(id, type) ==
    [id |-> id, type |-> type, centrality |-> 0, centrality_doped |-> 0]

\* a visualization whose graph has not been built: the fields of the graph
\* (nodes, links, nodeId, maxWeight, simIndex), those of the page
\* (updateCounter), the second graph of the two-graph page, and what the
\* last handler did (the powerIteration calls it made, what it rendered)
NewGraph(kind, initialNodes) ==
    [kind |-> kind, initialNodes |-> initialNodes,
     nodes |-> << >>, links |-> << >>, nodeId |-> 0, maxWeight |-> 0,
     simIndex |-> 0, updateCounter |-> 0,
     second |-> [nodes |-> << >>, links |-> << >>],
     calls |-> << >>, rendered |-> -1, caption |-> -1,
     completed |-> FALSE, wasReset |-> FALSE, added |-> 0]

\* the id of this.nodes[k] (k counts from 0, as the code does)
IdAt(g, k) == g.nodes[k + 1].id

\* addNode(isCentral) of the ring graphs
addNode(g) ==
    [g EXCEPT !.nodes = Append(g.nodes, NewNode(g.nodeId, "none")),
              !.nodeId = g.nodeId + 1]

\* addLink(source, target) of the ring graphs: weight 1
addLink(g, source, target) ==
    [g EXCEPT !.links = Append(g.links, [source |-> source, target |-> target,
                                         weight |-> Scale]),
              !.maxWeight = IF Scale > g.maxWeight THEN Scale ELSE g.maxWeight]

\* the n calls of addNode(false) in a row
RECURSIVE addNodes(_, _)
addNodes(g, n) == IF n <= 0 THEN g ELSE addNodes(addNode(g), n - 1)

\* the loop "Connect ring nodes", from i on
RECURSIVE connectRing(_, _, _)
connectRing(g, n, ix) ==
    IF ix > n THEN g
    ELSE connectRing(addLink(g, IdAt(g, ix), IdAt(g, (ix % n) + 1)), n, ix + 1)

\* the loop "Connect triangle nodes", from i on
RECURSIVE connectTriangle(_, _, _)
connectTriangle(g, numRingNodes, ix) ==
    IF ix >= 3 THEN g
    ELSE connectTriangle(addLink(g, IdAt(g, numRingNodes + 1 + ix),
                                    IdAt(g, ((ix + 1) % 3) + numRingNodes + 1)),
                         numRingNodes, ix + 1)

\* a vector of n zeros: Array(n).fill(0)
ZeroBias(n) == [k \in 1..n |-> 0]

\* the bias, were the 1 put behind the last entry: the array grows by one
DopedBiasAppended(n) == [k \in 1..(n + 1) |-> IF k = n + 1 THEN Scale ELSE 0]

\* the bias of computeEigenvectorCentrality_doping: b[0] = 1 (the
\* assignment makes the entry, also in an array of length 0)
DopedBias(n) == [k \in 1..(IF n = 0 THEN 1 ELSE n) |-> IF k = 1 THEN Scale ELSE 0]

\* the call powerIteration(adjacencyMatrix, b, 1000): what it is given
PowerCall(ns, ls, bias) == [A |-> AdjacencyMatrix(ns, ls), b |-> bias]

\* computeEigenvectorCentrality(), were it to do nothing
computeNothing(g) == g

\* computeEigenvectorCentrality(): node i gets eigenvector[i] of the call
computeEigenvectorCentrality(g) ==
    [g EXCEPT !.calls = Append(g.calls, PowerCall(g.nodes, g.links,
                                                  ZeroBias(Len(g.nodes)))),
              !.nodes = [k \in DOMAIN g.nodes |->
                            [g.nodes[k] EXCEPT !.centrality = k]]]

\* computeEigenvectorCentrality_doping(): the same with b[0] = 1
computeEigenvectorCentrality_doping(g) ==
    [g EXCEPT !.calls = Append(g.calls, PowerCall(g.nodes, g.links,
                                                  DopedBias(Len(g.nodes)))),
              !.nodes = [k \in DOMAIN g.nodes |->
                            [g.nodes[k] EXCEPT !.centrality_doped = k]]]

\* the ids of the nodes a link joins to the central node
ConnectedNodes(g) ==
    IF g.nodes = << >> THEN {}
    ELSE LET c == IdAt(g, 0)
         IN  {IF g.links[k].source = c THEN g.links[k].target
                                       ELSE g.links[k].source :
                 k \in {j \in DOMAIN g.links :
                           g.links[j].source = c \/ g.links[j].target = c}}

\* the indices i the loop of connectNextUnlinkedNode visits, the last
\* `spared` nodes left out, whose node is not linked to the central one
Unlinked(g, spared) ==
    {ix \in 1..(Len(g.nodes) - spared - 1) : IdAt(g, ix) \notin ConnectedNodes(g)}

\* the index the loop would stop at, were it to run from the last node down
NextUnlinkedLast(g, spared) ==
    CHOOSE ix \in Unlinked(g, spared) : \A j \in Unlinked(g, spared) : ix >= j

\* the index the loop stops at
NextUnlinked(g, spared) ==
    CHOOSE ix \in Unlinked(g, spared) : \A j \in Unlinked(g, spared) : ix <= j

\* connectNextUnlinkedNode(), whose loop stops `spared` nodes before the end
connectNextUnlinkedNode(g, spared) ==
    IF Unlinked(g, spared) = {} THEN g
    ELSE LET linked == addLink(g, IdAt(g, 0), IdAt(g, NextUnlinked(g, spared)))
         IN  [computeEigenvectorCentrality(linked) EXCEPT !.added = g.added + 1]

\* the fields initGraph clears, were the id counter left to run on
ClearedKeepingId(g) ==
    [g EXCEPT !.nodes = << >>, !.links = << >>, !.maxWeight = 0]

\* the fields initGraph clears
Cleared(g) ==
    [g EXCEPT !.nodes = << >>, !.links = << >>, !.nodeId = 0, !.maxWeight = 0]

\* Graph.initGraph(initialNodes) of the ring page
initRing(g, n) ==
    IF n < 1 THEN g
    ELSE connectRing(addNodes(addNode(Cleared(g)), n), n, 1)

\* Graph.initGraph(initialNodes) of the doping page
initDoping(g, n) ==
    IF n < 1 THEN g
    ELSE LET ring == connectRing(addNodes(addNode(Cleared(g)), n), n, 1)
             linked == connectNextUnlinkedNode(
                           connectNextUnlinkedNode(
                               connectNextUnlinkedNode(ring, 0), 0), 0)
         IN  computeEigenvectorCentrality_doping(
                 computeEigenvectorCentrality(linked))

\* Graphs.initGraph(initialNodes) of the island page
initIsland(g, n) ==
    IF n < 4 THEN g
    ELSE LET numRingNodes == n - 3
             ring == connectRing(addNodes(addNode(Cleared(g)), numRingNodes),
                                 numRingNodes, 1)
         IN  connectTriangle(addNodes(ring, 3), numRingNodes, 0)

\* ------------------------------------------------------- the market graph
Types == {"buyer", "seller"}

\* the values Math.random() gives a weight
RandomWeights == {300, 900}

\* link.weight += 0.1
Increment == 100

\* the positions of the nodes a new node of type t may be linked to:
\* node.type !== newNode.type
Opposite(ns, t) == {k \in DOMAIN ns : ns[k].type # t}

\* the forEach of addNode from the k-th node on: a link from the new node to
\* each node the draws chose, with the weight drawn for it
RECURSIVE pushLinks(_, _, _, _, _)
pushLinks(ls, ns, newId, drawnWeights, k) ==
    IF k > Len(ns) THEN ls
    ELSE pushLinks(IF k \in DOMAIN drawnWeights
                   THEN Append(ls, [source |-> newId, target |-> ns[k].id,
                                    weight |-> drawnWeights[k]])
                   ELSE ls,
                   ns, newId, drawnWeights, k + 1)

\* addNode() of the market graph: the graphs it can leave
marketAddNode(g) ==
    UNION {UNION {{[g EXCEPT !.nodes = Append(g.nodes, NewNode(g.nodeId, t)),
                             !.nodeId = g.nodeId + 1,
                             !.links = pushLinks(g.links, g.nodes, g.nodeId,
                                                 drawnWeights, 1)] :
                      drawnWeights \in [chosen -> RandomWeights]} :
                  chosen \in SUBSET Opposite(g.nodes, t)} :
           t \in Types}

\* initGraph() of the market graph: n calls of addNode
RECURSIVE marketInitGraph(_, _)
marketInitGraph(g, n) ==
    IF n <= 0 THEN {g}
    ELSE UNION {marketAddNode(h) : h \in marketInitGraph(g, n - 1)}

\* the first step of a tick: a new node, with no link, or none
pushNode(g, isNew) ==
    IF isNew
    THEN {[g EXCEPT !.nodes = Append(g.nodes, NewNode(g.nodeId, t)),
                    !.nodeId = g.nodeId + 1] : t \in Types}
    ELSE {g}

\* the ids of the nodes of type t
OfType(g, t) == {g.nodes[k].id : k \in {j \in DOMAIN g.nodes : g.nodes[j].type = t}}

\* the pairs <<sourceNode, targetNode>> a tick can choose; << >> when one of
\* them stays undefined
Pairs(g, isNew) ==
    IF isNew
    THEN LET newNode == g.nodes[Len(g.nodes)]
             oppositeNodes == OfType(g, IF newNode.type = "buyer" THEN "seller"
                                                                 ELSE "buyer")
         IN  IF oppositeNodes = {} THEN {<< >>}
             ELSE {<<newNode.id, target>> : target \in oppositeNodes}
    ELSE {<< >>} \cup (OfType(g, "buyer") \X OfType(g, "seller"))

\* this.links.some(...): a link joins the two nodes, in either direction
Linked(g, s, t) ==
    \E k \in DOMAIN g.links :
        \/ g.links[k].source = s /\ g.links[k].target = t
        \/ g.links[k].source = t /\ g.links[k].target = s

\* the test before a new link, were it left out
AlreadyLinkedSkipped(g, s, t) == FALSE

\* the test before a new link
AlreadyLinked(g, s, t) == Linked(g, s, t)

Larger(x, y) == IF x > y THEN x ELSE y

\* the second step of a tick: the new link, when there is one
pushLink(g, pair) ==
    IF pair = << >> \/ AlreadyLinked(g, pair[1], pair[2]) THEN {g}
    ELSE {[g EXCEPT !.links = Append(g.links, [source |-> pair[1],
                                               target |-> pair[2],
                                               weight |-> w]),
                    !.maxWeight = Larger(g.maxWeight, w),
                    !.added = g.added + 1] : w \in RandomWeights}

\* the type of the node with this id
TypeOf(g, id) == g.nodes[FindIndex(g.nodes, id)].type

\* the positions of buyerSellerLinks
BuyerSellerLinks(g) ==
    {k \in DOMAIN g.links :
        TypeOf(g, g.links[k].source) # TypeOf(g, g.links[k].target)}

\* the largest weight of the links at these positions (0 without one)
RECURSIVE MaxWeightOf(_, _)
MaxWeightOf(ls, ks) ==
    IF ks = {} THEN 0
    ELSE LET k == CHOOSE j \in ks : TRUE
         IN  Larger(ls[k].weight, MaxWeightOf(ls, ks \ {k}))

\* the third step of a tick: the links the draws highlight gain weight
highlight(g) ==
    {LET ls == [k \in DOMAIN g.links |->
                   IF k \in hit
                   THEN [g.links[k] EXCEPT !.weight = g.links[k].weight + Increment]
                   ELSE g.links[k]]
     IN  [g EXCEPT !.links = ls,
                   !.maxWeight = Larger(g.maxWeight, MaxWeightOf(ls, hit))] :
        hit \in SUBSET BuyerSellerLinks(g)}

\* resetSimulation() of the market graph: the graphs it can leave
marketReset(g) ==
    marketInitGraph([Cleared(g) EXCEPT !.updateCounter = 0, !.wasReset = TRUE],
                    g.initialNodes)

\* ------------------------------------------------------ the two-graph page
\* this.updateLimit of EigenvectorCentrality
TwoGraphLimit == 10

\* Math.random() < this.p, were p stored by initGraph
LinkDrawsStored == BOOLEAN

\* Math.random() < this.p: this.p is undefined, the comparison is false
LinkDraws == {FALSE}

\* the nodes and links n calls of addNode() of the two-graph page leave:
\* a link from the new node to each older node whose draw is below this.p
RECURSIVE twoAddNodes(_, _, _)
twoAddNodes(ns, ls, n) ==
    IF n <= 0 THEN {[nodes |-> ns, links |-> ls]}
    ELSE UNION {twoAddNodes(Append(ns, NewNode(Len(ns), "none")),
                            pushLinks(ls, ns, Len(ns), drawnWeights, 1), n - 1) :
                   drawnWeights \in UNION {[chosen -> RandomWeights] :
                       chosen \in {c \in SUBSET DOMAIN ns :
                                      \A k \in c : TRUE \in LinkDraws}}}

\* ------------------------------------------------------------- the pages
\* the update limit of a page
UpdateLimit(g) ==
    CASE g.kind = "ring" -> g.initialNodes + 1
      [] g.kind = "island" -> g.initialNodes + 1 - 3
      [] g.kind = "doping" -> 3
      [] g.kind = "two" -> TwoGraphLimit
      [] OTHER -> MarketLimit

\* a handler begins: nothing called, rendered or reset by it yet
Began(g) ==
    [g EXCEPT !.calls = << >>, !.completed = FALSE, !.wasReset = FALSE,
              !.added = 0]

\* the handler ran to its end
Completed(g) == [g EXCEPT !.completed = TRUE]

\* updateGraph(), were it called after the increment of simIndex
RenderedAfterIncrement(g) ==
    [g EXCEPT !.rendered = IF g.simIndex + 1 > 2 THEN 0 ELSE g.simIndex + 1]

\* updateGraph() of the doping page draws the sizes for this.simIndex
Rendered(g) == [g EXCEPT !.rendered = g.simIndex]

\* the state the constructor of the page leaves in a page of the ring family
\* (the call variables are those of no call)
PageState(g) ==
    /\ graph = g
    /\ matrix = NoMatrix
    /\ held = NoMatrix
    /\ heap = << >>
    /\ Running(IdleCall)
    /\ other = NoCall
    /\ sched = "alone"

\* new ECViz(containerId1, width, height, initialNodes1)
RingInit ==
    \E n \in 0..MaxRing : PageState(initRing(NewGraph("ring", n), n))

\* new IslandViz(containerId1, width, height, initialNodes1)
IslandInit ==
    \E n \in 3..(MaxRing + 3) : PageState(initIsland(NewGraph("island", n), n))

\* new DopingViz(containerId1, width, height, initialNodes1)
DopingPageInit ==
    \E n \in 1..MaxRing :
        PageState([Rendered(initDoping(NewGraph("doping", n), n))
                      EXCEPT !.caption = 0])

\* new ErdosRenyiGraph(containerId, initialNodes, p), of either copy
MarketInit ==
    \E kind \in {"market", "market0"} :
    \E n \in 0..MaxN :
    \E g \in marketInitGraph(NewGraph(kind, n), n) : PageState(g)

\* new EigenvectorCentrality(containerId1, containerId2, width, height,
\* initialNodes1, p1, initialNodes2, p2)
TwoGraphInit ==
    \E n1 \in 0..MaxN, n2 \in 0..MaxN :
    \E g1 \in twoAddNodes(<< >>, << >>, n1) :
    \E g2 \in twoAddNodes(<< >>, << >>, n2) :
        PageState([NewGraph("two", n1) EXCEPT !.nodes = g1.nodes,
                                               !.links = g1.links,
                                               !.nodeId = n1,
                                               !.second = g2])

InitViz == RingInit \/ IslandInit \/ DopingPageInit \/ MarketInit \/ TwoGraphInit

\* the end of a tick of the ring and island pages: this.updateCounter++ and
\* resetSimulation() at the limit
countRing(g) ==
    LET counted == [g EXCEPT !.updateCounter = g.updateCounter + 1]
    IN  IF counted.updateCounter >= UpdateLimit(g)
        THEN [(IF g.kind = "ring" THEN initRing(counted, g.initialNodes)
                                  ELSE initIsland(counted, g.initialNodes))
                 EXCEPT !.updateCounter = 0, !.wasReset = TRUE]
        ELSE counted

\* ECViz.step()
RingStep ==
    /\ graph.kind = "ring"
    /\ graph' = Completed(countRing(connectNextUnlinkedNode(Began(graph), 0)))
    /\ UNCHANGED <<heap, callVars, matrix, held>>

\* IslandViz.step()
IslandStep ==
    /\ graph.kind = "island"
    /\ graph' = Completed(countRing(connectNextUnlinkedNode(Began(graph), 3)))
    /\ UNCHANGED <<heap, callVars, matrix, held>>

\* DopingViz.step()
DopingStep ==
    /\ graph.kind = "doping"
    /\ LET drawn_g == Rendered(Began(graph))
           captioned == [drawn_g EXCEPT !.caption = drawn_g.simIndex]
           next == captioned.simIndex + 1
       IN  graph' = Completed([captioned EXCEPT
                                  !.simIndex = IF next > 2 THEN 0 ELSE next])
    /\ UNCHANGED <<heap, callVars, matrix, held>>

\* the end of a tick of the market page
countMarket(g) ==
    LET counted == [g EXCEPT !.updateCounter = g.updateCounter + 1]
    IN  IF counted.updateCounter >= UpdateLimit(g)
        THEN marketReset(counted)
        ELSE {counted}

\* this.computeEigenvectorCentrality() of a tick of the market page and what
\* follows it: powerIteration throws on a matrix without rows, and the tick
\* ends there; the older copy of the page computes no centrality
finishMarket(g) ==
    IF g.kind = "market0" THEN countMarket(g)
    ELSE IF g.nodes = << >>
    THEN {[g EXCEPT !.calls = Append(g.calls, PowerCall(g.nodes, g.links, << >>))]}
    ELSE countMarket(computeEigenvectorCentrality(g))

\* ErdosRenyiGraph.highlightRandomEdge()
HighlightRandomEdge ==
    /\ graph.kind \in {"market", "market0"}
    /\ \E isNew \in {b_new \in BOOLEAN : b_new => Len(graph.nodes) < MaxNodes} :
       \E g1 \in pushNode(Began(graph), isNew) :
       \E pair \in Pairs(g1, isNew) :
       \E g2 \in pushLink(g1, pair) :
       \E g3 \in highlight(g2) :
       \E g4 \in finishMarket(g3) :
           graph' = IF g3.kind = "market" /\ g3.nodes = << >> THEN g4
                    ELSE Completed(g4)
    /\ UNCHANGED <<heap, callVars, matrix, held>>

\* the first graph of the page, or its second, as a graph of its own
GraphOf(g, which) ==
    IF which = 1 THEN [nodes |-> g.nodes, links |-> g.links] ELSE g.second

\* computeEigenvectorCentrality(graph) of the two-graph page
twoCompute(g, which) ==
    LET gr == GraphOf(g, which)
        called == [g EXCEPT !.calls = Append(g.calls,
                      PowerCall(gr.nodes, gr.links, ZeroBias(Len(gr.nodes))))]
        stored == [k \in DOMAIN gr.nodes |-> [gr.nodes[k] EXCEPT !.centrality = k]]
    IN  IF gr.nodes = << >> THEN called
        ELSE IF which = 1 THEN [called EXCEPT !.nodes = stored]
        ELSE [called EXCEPT !.second = [gr EXCEPT !.nodes = stored]]

\* resetSimulation() of the two-graph page: its body is empty
twoReset(g) == g

\* EigenvectorCentrality.step(); a graph without nodes makes powerIteration
\* throw, and the step ends there
TwoGraphStep ==
    /\ graph.kind = "two"
    /\ graph.updateCounter < MaxCounter
    /\ LET first == twoCompute(Began(graph), 1)
           both == twoCompute(first, 2)
           counted == [both EXCEPT !.updateCounter = both.updateCounter + 1]
       IN  graph' = IF graph.nodes = << >> THEN first
                    ELSE IF graph.second.nodes = << >> THEN both
                    ELSE IF counted.updateCounter >= UpdateLimit(counted)
                    THEN Completed(twoReset(counted))
                    ELSE Completed(counted)
    /\ UNCHANGED <<heap, callVars, matrix, held>>

\* the pages whose graph changes by no draw: all but the market page
InitPages == RingInit \/ IslandInit \/ DopingPageInit \/ TwoGraphInit

NextPages == RingStep \/ IslandStep \/ DopingStep \/ TwoGraphStep

SpecPages == InitPages /\ [][NextPages]_vars

NextViz == RingStep \/ IslandStep \/ DopingStep \/ HighlightRandomEdge \/ TwoGraphStep

SpecViz == InitViz /\ [][NextViz]_vars


\* the calls of powerIteration the last handler (or the constructor) made
Calls == graph.calls

\* b is all zeros but for b[0] = 1
DopedShape(bias) ==
    /\ Len(bias) >= 1
    /\ bias[1] = Scale
    /\ \A k \in DOMAIN bias : k > 1 => bias[k] = 0

\* -------------------------------------------------------------------- C21
\* C21: at every call of powerIteration a visualization makes, b has as many
\* entries as the matrix has rows, and is all zeros or all zeros but for
\* b[0] = 1.
C21_BiasShape ==
    \A k \in DOMAIN Calls :
        /\ Len(Calls[k].b) = Len(Calls[k].A)
        /\ AllZero(Calls[k].b) \/ DopedShape(Calls[k].b)

\* the doping page has made a call of each kind on a graph with links
C21_Witness ==
    /\ graph.kind = "doping"
    /\ \E k \in DOMAIN Calls : AllZero(Calls[k].b) /\ Len(Calls[k].b) >= 2
    /\ \E k \in DOMAIN Calls : DopedShape(Calls[k].b) /\ ~AllZero(Calls[k].A[1])

\* the graphs of the page: one, or the two of the two-graph page
PageGraphs == IF graph.kind = "two" THEN {GraphOf(graph, 1), graph.second}
          ELSE {GraphOf(graph, 1)}

\* -------------------------------------------------------------------- C22
\* C22: node ids are unique and nodes[i].id = i, also after a reset (the id
\* counter is the number of nodes); the row getAdjacencyMatrix gives a node is
\* its position; and the eigenvector entry stored on a node is the one at its
\* position.
C22_IndexAlignment ==
    /\ graph.kind # "two" => graph.nodeId = Len(graph.nodes)
    /\ \A gr \in PageGraphs :
       \A k \in DOMAIN gr.nodes :
           /\ gr.nodes[k].id = k - 1
           /\ \A j \in DOMAIN gr.nodes : gr.nodes[j].id = gr.nodes[k].id => j = k
           /\ FindIndex(gr.nodes, gr.nodes[k].id) = k
           /\ gr.nodes[k].centrality \in {0, k}
           /\ gr.nodes[k].centrality_doped \in {0, k}

\* a tick of the market page has stored an entry on every node of a graph
\* that a tick gave a node and a link
C22_Witness ==
    /\ graph.kind = "market"
    /\ graph.completed /\ ~graph.wasReset
    /\ Len(graph.nodes) > MaxN
    /\ graph.links # << >>
    /\ \A k \in DOMAIN graph.nodes : graph.nodes[k].centrality = k

\* the pages that display a centrality
DisplaysCentrality == graph.kind \in {"market", "ring", "island", "doping", "two"}

\* the matrix getAdjacencyMatrix would build of a graph now
MatrixNow(gr) == AdjacencyMatrix(gr.nodes, gr.links)

\* an entry of an eigenvector is stored on every node of the graph
AllStored(gr) == \A k \in DOMAIN gr.nodes : gr.nodes[k].centrality = k

\* no entry is stored on any node of the graph
NoneStored(gr) == \A k \in DOMAIN gr.nodes : gr.nodes[k].centrality = 0

\* the handler called powerIteration, last on the matrix of the graph as it
\* is now, and every node carries an entry
FreshCentrality(gr) ==
    /\ Calls # << >>
    /\ Calls[Len(Calls)].A = MatrixNow(gr)
    /\ AllStored(gr)

\* -------------------------------------------------------------------- C23
\* C23 as stated: every completed tick of a page that displays a centrality
\* has called powerIteration on the matrix of the nodes and links as they are
\* after the tick, and every node carries an entry of that call.
C23_EveryTickRecomputes ==
    (graph.completed /\ DisplaysCentrality) =>
        /\ FreshCentrality(GraphOf(graph, 1))
        /\ graph.kind = "two" =>
              /\ Len(Calls) = 2
              /\ Calls[1].A = MatrixNow(GraphOf(graph, 1))
              /\ AllStored(graph.second)

\* C23, amended: a tick of the market page and of the two-graph page calls
\* powerIteration once per graph, a tick of the ring and island pages calls it
\* exactly when it adds a link, a step of the doping page never calls it; after
\* a tick that did not reset the graph, every node carries an entry of a call
\* on the graph as it is (for the doping page, of the calls of the
\* constructor); after a tick that reset the graph, no node carries an entry.
C23_TickRecomputes ==
    graph.completed =>
        /\ graph.kind = "market" =>
              /\ Len(Calls) = 1
              /\ ~graph.wasReset => FreshCentrality(GraphOf(graph, 1))
        /\ graph.kind = "two" =>
              /\ Len(Calls) = 2
              /\ Calls[1].A = MatrixNow(GraphOf(graph, 1))
              /\ Calls[2].A = MatrixNow(graph.second)
              /\ AllStored(GraphOf(graph, 1)) /\ AllStored(graph.second)
        /\ graph.kind \in {"ring", "island"} =>
              /\ Len(Calls) = graph.added
              /\ ~graph.wasReset => FreshCentrality(GraphOf(graph, 1))
        /\ graph.kind = "doping" =>
              /\ Calls = << >>
              /\ AllStored(GraphOf(graph, 1))
              /\ \A k \in DOMAIN graph.nodes : graph.nodes[k].centrality_doped = k
        /\ (graph.wasReset /\ graph.kind \in {"market", "ring", "island"}) =>
              NoneStored(GraphOf(graph, 1))

\* a tick of the ring page has linked a node to the central one and stored
\* the entries of the call on the new graph
C23_Witness ==
    /\ graph.kind = "ring"
    /\ graph.completed /\ ~graph.wasReset
    /\ graph.added = 1
    /\ FreshCentrality(GraphOf(graph, 1))
    /\ Len(graph.nodes) >= 3

\* the pages that count their ticks up to an update limit
CountsTicks == graph.kind \in {"market", "market0", "ring", "island", "two"}

\* -------------------------------------------------------------------- C24
\* C24: after every completed tick of a page that counts its ticks, the
\* counter is below the update limit (the tick that reaches the limit resets
\* the simulation and leaves the counter at 0).
C24_CounterBelowLimit ==
    (graph.completed /\ CountsTicks) =>
        /\ graph.updateCounter < UpdateLimit(graph)
        /\ graph.wasReset => graph.updateCounter = 0

\* the pages whose graph has a central node and a ring
RingFamily == graph.kind \in {"ring", "island", "doping"}

\* the nodes connectNextUnlinkedNode leaves out: the triangle of the island
Spared == IF graph.kind = "island" THEN 3 ELSE 0

\* the positions of the links that join the central node to another node
CentralLinks ==
    {k \in DOMAIN graph.links :
        (graph.links[k].source = 0 \/ graph.links[k].target = 0)}

\* the number of calls of connectNextUnlinkedNode the last handler made
ConnectCalls ==
    IF graph.completed THEN 1
    ELSE IF graph.kind = "doping" THEN 3 ELSE 0

\* the smaller of two numbers
Smaller(x, y) == IF x < y THEN x ELSE y

\* -------------------------------------------------------------------- C25
\* C25: each call of connectNextUnlinkedNode adds at most one link, from
\* nodes[0] to the lowest-index ring node not linked to it, so the links of
\* the central node go to nodes 1, 2, ... in this order and never twice to the
\* same node; a call made when every ring node is linked changes nothing and
\* computes nothing; the triangle nodes of the island are never linked to the
\* central node.
C25_ConnectNext ==
    /\ [](RingFamily =>
          /\ \A k \in CentralLinks :
                /\ graph.links[k].source = 0
                /\ graph.links[k].target =
                      Cardinality({j \in CentralLinks : j <= k})
                /\ graph.links[k].target < Len(graph.nodes) - Spared
          /\ \A j, k \in CentralLinks :
                graph.links[j].target = graph.links[k].target => j = k
          /\ graph.added <= ConnectCalls
          /\ graph.kind # "doping" => Len(Calls) = graph.added
          /\ (graph.kind = "doping" /\ ~graph.completed) =>
                /\ graph.added = Smaller(3, Len(graph.nodes) - 1)
                /\ Len(Calls) = graph.added + 2)
    /\ [][(RingFamily /\ graph.kind # "doping") =>
             LET unlinked == Unlinked(graph, Spared)
             IN  /\ unlinked = {} =>
                       /\ graph'.added = 0 /\ graph'.calls = << >>
                       /\ ~graph'.wasReset => graph'.links = graph.links
                 /\ unlinked # {} =>
                       /\ graph'.added = 1
                       /\ ~graph'.wasReset =>
                             \E t \in unlinked :
                                 /\ \A ix \in unlinked : t <= ix
                                 /\ graph'.links = Append(graph.links,
                                        [source |-> IdAt(graph, 0),
                                         target |-> IdAt(graph, t),
                                         weight |-> Scale])]_vars

\* every ring node of a ring of at least two nodes is linked to the central
\* node, the last one by the tick just made
C25_Witness ==
    /\ graph.kind = "ring"
    /\ graph.completed /\ graph.added = 1
    /\ Unlinked(graph, 0) = {}
    /\ Cardinality(CentralLinks) >= 2

\* the market page, in either copy
Market == graph.kind \in {"market", "market0"}

\* -------------------------------------------------------------------- C26
\* C26: in the market graph every link joins a buyer and a seller, and no
\* two links join the same unordered pair of nodes.
C26_BuyerSellerLinks ==
    Market =>
        /\ \A k \in DOMAIN graph.links :
              {TypeOf(graph, graph.links[k].source),
               TypeOf(graph, graph.links[k].target)} = Types
        /\ \A j, k \in DOMAIN graph.links :
              {graph.links[j].source, graph.links[j].target}
                 = {graph.links[k].source, graph.links[k].target} => j = k

\* a tick has added a link to a graph that had one, and chose a pair that
\* was not linked
C26_Witness ==
    /\ Market
    /\ graph.completed /\ ~graph.wasReset
    /\ graph.added = 1
    /\ Len(graph.links) >= 2

\* -------------------------------------------------------------------- C27
\* C27: in the market graph, whenever there is a link, maxWeight is at least
\* the weight of every link.
C27_MaxWeightBounds ==
    (Market /\ graph.links # << >>) =>
        \A k \in DOMAIN graph.links : graph.links[k].weight <= graph.maxWeight

\* -------------------------------------------------------------------- C28
\* C28: simIndex of the doping page is 0, 1 or 2, is 0 before the first step,
\* and each step moves it 0 -> 1 -> 2 -> 0; the step draws the graph and sets
\* the caption for the same simIndex, the one it had before the increment.
C28_SimIndexCycle ==
    /\ [](graph.kind = "doping" =>
            /\ graph.simIndex \in {0, 1, 2}
            /\ ~graph.completed => graph.simIndex = 0
            /\ graph.rendered = graph.caption)
    /\ [][graph.kind = "doping" =>
            /\ graph'.simIndex = (graph.simIndex + 1) % 3
            /\ graph'.rendered = graph.simIndex
            /\ graph'.caption = graph.simIndex]_vars

\* a step has drawn the graph for simIndex 2 and wrapped the index to 0
C28_Witness ==
    /\ graph.kind = "doping"
    /\ graph.completed
    /\ graph.rendered = 2 /\ graph.caption = 2
    /\ graph.simIndex = 0

\* every entry of the matrix is 0
ZeroEntries(M) == \A p \in DOMAIN M : AllZero(M[p])

\* -------------------------------------------------------------------- C30
\* C30: on the two-graph page neither graph ever has a link (the p given to
\* initGraph is never stored, so addNode never links), and every matrix a
\* step gives powerIteration is all zeros.
C30_NoLinks ==
    graph.kind = "two" =>
        /\ graph.links = << >>
        /\ graph.second.links = << >>
        /\ \A k \in DOMAIN Calls : ZeroEntries(Calls[k].A)

\* a step has called powerIteration for two graphs of at least two nodes
C30_Witness ==
    /\ graph.kind = "two"
    /\ graph.completed
    /\ Len(Calls) = 2
    /\ Len(Calls[1].A) >= 2 /\ Len(Calls[2].A) >= 2
====
